---- MODULE Spec2Model ----
(***************************************************************************)
(* A model of scrape_headlines.py: the section loop of main, scrape_one,   *)
(* extract_article, find_links_from_section, clean_text, summarize, dedup. *)
(*                                                                         *)
(* Text is a sequence of one-character tokens.  Three tokens stand for a   *)
(* whole substring that one of clean_text's patterns matches: "E" an       *)
(* e-mail address, "P" a phone number, "C" the copyright notice.  "da" and *)
(* "yo" are the two Korean sentence-final syllables summarize looks for.   *)
(* An href or URL is a record [host, path, id]: host "" is a relative      *)
(* href, path is the substring the link pattern looks for.                 *)
(***************************************************************************)
EXTENDS Integers, Sequences, FiniteSets, TLC

VARIABLES pc, top_k, secIdx, files, all_rows, lres, all_links, seen, rows,
          hidx, log, tried, art, items, scan

vars == <<pc, top_k, secIdx, files, all_rows, lres, all_links, seen, rows,
          hidx, log, tried, art, items, scan>>

(* ------------------------------ bounds --------------------------------- *)

\* largest --top-k tried when one call of scrape_one is explored
MaxTopK == 3

\* largest --top-k tried when the whole run of main is explored
MainTopK == 2

\* largest limit tried when find_links_from_section is explored alone
MaxLimit == 1

\* article ids an anchor may carry when find_links_from_section is explored
MaxIds == 4

(* ----------------------------- constants ------------------------------- *)

SECTIONS ==
    << [name |-> "politics",   sid |-> 100],
       [name |-> "economy",    sid |-> 101],
       [name |-> "society",    sid |-> 102],
       [name |-> "culture",    sid |-> 103],
       [name |-> "world",      sid |-> 104],
       [name |-> "it_science", sid |-> 105] >>

\* the multiplier of "limit * 6"
LinkMargin == 6

\* the content prefix that enters the dedup key, r["content"][:160]
KeyPrefix == 160

\* summarize's default max_len
SummaryMax == 420

Desktop == "https://news.naver.com"

Mobile == "https://n.news.naver.com"

(* ------------------------------- helpers ------------------------------- *)

Min(a, b) == IF a < b THEN a ELSE b

Max(a, b) == IF a < b THEN b ELSE a

\* Python's s[:n], also for a negative n
Take(s, n) ==
    IF n >= 0 THEN SubSeq(s, 1, Min(n, Len(s)))
    ELSE SubSeq(s, 1, Max(Len(s) + n, 0))

Rep(tok, n) == [j \in 1..n |-> tok]

InSeq(x, s) == \E j \in 1..Len(s) : s[j] = x

\* seen = []; [seen.append(x) for x in all_links if x not in seen]
Unique(s) ==
    LET F[j \in 0..Len(s)] ==
            IF j = 0 THEN <<>>
            ELSE IF InSeq(s[j], F[j-1]) THEN F[j-1] ELSE Append(F[j-1], s[j])
    IN  F[Len(s)]

\* first position at or after j that is not whitespace
RECURSIVE SkipWs(_, _)
SkipWs(t, j) == IF j <= Len(t) /\ t[j] = " " THEN SkipWs(t, j + 1) ELSE j

\* last position at or before j that is not whitespace
RECURSIVE SkipWsBack(_, _)
SkipWsBack(t, j) == IF j >= 1 /\ t[j] = " " THEN SkipWsBack(t, j - 1) ELSE j

\* str.strip() for the one whitespace token
Strip(t) == SubSeq(t, SkipWs(t, 1), SkipWsBack(t, Len(t)))

(* ------------------------------ clean_text ----------------------------- *)

\* re.sub(pattern, " ", t) for the pattern that the token tok stands for
Blank(t, tok) == [j \in 1..Len(t) |-> IF t[j] = tok THEN " " ELSE t[j]]

\* re.sub(r"\s+", " ", t): a whitespace token goes when one precedes it
Collapse(t) ==
    LET pairs == [j \in 1..Len(t) |->
                    [c |-> t[j], dup |-> t[j] = " " /\ j > 1 /\ t[j-1] = " "]]
        kept  == SelectSeq(pairs, LAMBDA p : ~p.dup)
    IN  [j \in 1..Len(kept) |-> kept[j].c]

clean_text(t) ==
    IF t = <<>> THEN <<>>
    ELSE Strip(Collapse(Blank(Blank(Blank(t, "E"), "P"), "C")))

(* ------------------------------ summarize ------------------------------ *)

\* length of the sentence terminator that starts at j (0: none); the
\* terminator counts only when whitespace follows it
TermAt(t, j) ==
    IF j + 2 <= Len(t) /\ t[j] \in {"da", "yo"} /\ t[j+1] = "." /\ t[j+2] = " "
        THEN 2
    ELSE IF j + 1 <= Len(t) /\ t[j] \in {".", "!", "?"} /\ t[j+1] = " "
        THEN 1
    ELSE 0

\* the positions where re.split finds a delimiter: a terminator that is
\* not the "." of a two-character terminator one position earlier
SplitStarts(t) ==
    {j \in 1..Len(t) : TermAt(t, j) > 0 /\ ~(j > 1 /\ TermAt(t, j - 1) = 2)}

\* re.split(r"(?:da\.|yo\.|[.!?])\s+", t): the text before the first
\* delimiter, between one delimiter (terminator and whitespace) and the
\* next, and after the last
re_split(t) ==
    LET starts == SplitStarts(t)
        n      == Cardinality(starts)
        nth(k) == CHOOSE d \in starts : Cardinality({x \in starts : x < d}) = k - 1
        from(k) == IF k = 1 THEN 1
                   ELSE SkipWs(t, nth(k - 1) + TermAt(t, nth(k - 1)))
        upto(k) == IF k <= n THEN nth(k) - 1 ELSE Len(t)
    IN  [k \in 1..(n + 1) |-> SubSeq(t, from(k), upto(k))]

RECURSIVE Join(_)
Join(ps) ==
    IF ps = <<>> THEN <<>>
    ELSE IF Len(ps) = 1 THEN ps[1]
    ELSE ps[1] \o << " " >> \o Join(Tail(ps))

summarize(text, max_len) ==
    IF text = <<>> THEN <<>>
    ELSE LET split == re_split(text)
             parts == SelectSeq([j \in 1..Len(split) |-> Strip(split[j])],
                                LAMBDA p : p # <<>>)
             s     == Join(Take(parts, 3))
         IN  IF Len(s) > max_len THEN Take(s, max_len) \o << "..." >> ELSE s

(* -------------------------------- dedup -------------------------------- *)

\* a slip: the whole content enters the key, not its prefix
dedup_key_whole(r) == r.title \o r.content

\* the text whose MD5 is the key k; MD5 is taken to have no collisions
dedup_key(r) == r.title \o Take(r.content, KeyPrefix)

dedup(rs) ==
    LET F[j \in 0..Len(rs)] ==
            IF j = 0 THEN <<>>
            ELSE IF \E m \in 1..Len(F[j-1]) : dedup_key(F[j-1][m]) = dedup_key(rs[j])
                 THEN F[j-1]
                 ELSE Append(F[j-1], rs[j])
    IN  F[Len(rs)]

(* ----------------------- find_links_from_section ----------------------- *)

EmptyHref == [host |-> "", path |-> "", id |-> 0]

Href(host, path, id) == [host |-> host, path |-> path, id |-> id]

\* ("/read.naver" in href) or ("/mnews/article/" in href)
pattern(href) == href.path \in {"/read.naver", "/mnews/article/"}

\* if not href.startswith("http"): href = "https://news.naver.com" + href
resolve(href) == IF href.host = "" THEN [href EXCEPT !.host = Desktop] ELSE href

ScanStart == [links |-> <<>>, seen |-> {}, stop |-> FALSE]

\* one iteration of "for a in soup.select('a[href]')"; stop is the break
scan_anchor(st, href, limit) ==
    IF href = EmptyHref \/ ~pattern(href) THEN st
    ELSE LET u  == resolve(href)
             ls == IF u \in st.seen THEN st.links ELSE Append(st.links, u)
         IN  [links |-> ls, seen |-> st.seen \cup {u},
              stop |-> Len(ls) >= limit * LinkMargin]

RECURSIVE scan_from(_, _, _, _)
scan_from(st, doc, j, limit) ==
    IF j > Len(doc) \/ st.stop THEN st
    ELSE scan_from(scan_anchor(st, doc[j], limit), doc, j + 1, limit)

find_links_from_section(doc, limit) == scan_from(ScanStart, doc, 1, limit).links

(* --------------------------- extract_article --------------------------- *)

Sentinel == [title |-> <<>>, content |-> <<>>]

\* the first title selector with text; s.title is the element the last
\* selector, "title", finds
select_title(page) ==
    LET hit == {j \in 1..Len(page.titles) : page.titles[j] # <<>>}
    IN  IF hit # {} THEN page.titles[CHOOSE a \in hit : \A b \in hit : a <= b]
        ELSE page.titles[Len(page.titles)]

select_body(page) ==
    LET hit == {j \in 1..Len(page.bodies) : page.bodies[j] # <<>>}
    IN  IF hit # {} THEN page.bodies[CHOOSE a \in hit : \A b \in hit : a <= b]
        ELSE <<>>

page_pair(page) ==
    [title |-> select_title(page), content |-> clean_text(select_body(page))]

Usable(p) == p.title # <<>> /\ p.content # <<>>

(* ------------------------- the pages of the web ------------------------ *)

\* a parsed article page: the stripped text under each of the five title
\* selectors and each of the four body selectors, <<>> where nothing matches
Page(ts, bs) == [titles |-> ts, bodies |-> bs]

Nil == <<>>

PageCat ==
    << \* 1: desktop layout, h2#title_area and div#dic_area
       Page(<< <<"T">>, Nil, Nil, Nil, <<"s">> >>,
            << <<"a", ".", " ", "b">>, Nil, Nil, Nil >>),
       \* 2: the same article in the mobile layout, with a byline
       Page(<< Nil, <<"T">>, Nil, Nil, <<"s">> >>,
            << Nil, <<"a", ".", " ", " ", "b", " ", "E", " ", "C">>, Nil, Nil >>),
       \* 3: only the <title> element and an old body container
       Page(<< Nil, Nil, Nil, Nil, <<"U">> >>,
            << Nil, Nil, <<"c", "da", ".", " ", "d", "!", " ", "e", "?", " ", "f", ".", " ", "g">>, Nil >>),
       \* 4: the body is nothing but an e-mail address and a phone number
       Page(<< <<"T">>, Nil, Nil, Nil, Nil >>,
            << <<"E", " ", "P">>, Nil, Nil, Nil >>),
       \* 5: no title anywhere
       Page(<< Nil, Nil, Nil, Nil, Nil >>,
            << <<"a">>, Nil, Nil, Nil >>),
       \* 6: no body container
       Page(<< <<"T">>, Nil, Nil, Nil, Nil >>,
            << Nil, Nil, Nil, Nil >>),
       \* 7, 8: two bodies that differ only after the key prefix
       Page(<< <<"L">>, Nil, Nil, Nil, Nil >>,
            << Rep("a", KeyPrefix) \o <<"b">>, Nil, Nil, Nil >>),
       Page(<< <<"L">>, Nil, Nil, Nil, Nil >>,
            << Rep("a", KeyPrefix) \o <<"c">>, Nil, Nil, Nil >>) >>

\* what a fetch of an article page may answer: 0 is a failed request
SectionPages == {0, 1, 2, 4, 7, 8}

MainPages == {0, 3, 4, 5, 6}

ListingCat ==
    << \* 1: a desktop listing, five distinct articles
       << Href("", "/other", 0),
          Href("", "/read.naver", 1),
          Href(Desktop, "/read.naver", 1),
          EmptyHref,
          Href("", "/mnews/article/", 2),
          Href("", "/read.naver", 3),
          Href(Mobile, "/mnews/article/", 4),
          Href("", "/read.naver", 5) >>,
       \* 2: a mobile listing, one article of listing 1 and one of its own
       << Href(Mobile, "/mnews/article/", 2),
          Href("", "/read.naver", 1) >>,
       \* 3: two articles
       << Href("", "/read.naver", 1),
          Href("", "/mnews/article/", 2) >> >>

\* what a fetch of a listing page may answer: 0 is a failed request
SectionListings == {0, 1, 2}

MainListings == {0, 3}

\* title and cleaned body that extract_article finds on each page
PairCat == [j \in 1..Len(PageCat) |-> page_pair(PageCat[j])]

\* summarize(content) for the content of each page, worked out once
SummaryCat == [j \in 1..Len(PageCat) |-> summarize(PairCat[j].content, SummaryMax)]

\* summarize(content): looked up when the content is a page's, worked out
\* otherwise
summary_of(content) ==
    LET known == {j \in 1..Len(PageCat) : PairCat[j].content = content}
    IN  IF known # {} THEN SummaryCat[CHOOSE j \in known : TRUE]
        ELSE summarize(content, SummaryMax)

(* ------------------------------ the state ------------------------------ *)

\* the string strftime("%Y%m%d") gives on the day of the run
Today == "YYYYMMDD"

NoFile == [written |-> FALSE, data |-> <<>>]

FileNames == {SECTIONS[j].name : j \in 1..Len(SECTIONS)} \cup {"all_sections"}

section_name == SECTIONS[secIdx].name

\* the record scrape_one builds for the link h and the extracted pair a
Row(name, h, a) ==
    [date |-> Today, section |-> name, url |-> h,
     title |-> a.title, content |-> a.content,
     summary |-> summary_of(a.content)]

\* the locals of scrape_one and extract_article before the first statement
FreshLocals ==
    /\ lres = <<>>
    /\ all_links = <<>>
    /\ seen = <<>>
    /\ rows = <<>>
    /\ hidx = 1
    /\ log = <<>>
    /\ tried = <<>>
    /\ art = Sentinel
    /\ items = <<>>

\* main, after parse_args
MainInit ==
    /\ pc = "main"
    /\ top_k \in 0..MainTopK
    /\ secIdx = 1
    /\ files = [f \in FileNames |-> NoFile]
    /\ all_rows = <<>>
    /\ scan = ScanStart
    /\ FreshLocals

\* scrape_one, called for some section with some top_k
SectionInit ==
    /\ pc = "listing"
    /\ top_k \in 0..MaxTopK
    /\ secIdx \in 1..Len(SECTIONS)
    /\ files = [f \in FileNames |-> NoFile]
    /\ all_rows = <<>>
    /\ scan = ScanStart
    /\ FreshLocals

(* ------------------------------ scrape_one ----------------------------- *)

\* main calls scrape_one for the next section
CallScrape ==
    /\ pc = "main"
    /\ secIdx <= Len(SECTIONS)
    /\ pc' = "listing"
    /\ lres' = <<>>
    /\ all_links' = <<>>
    /\ seen' = <<>>
    /\ rows' = <<>>
    /\ hidx' = 1
    /\ log' = <<>>
    /\ tried' = <<>>
    /\ art' = Sentinel
    /\ items' = <<>>
    /\ UNCHANGED <<top_k, secIdx, files, all_rows, scan>>

\* a slip: a failed listing fetch throws away the links gathered so far
links_after_reset(out) ==
    IF out = 0 THEN <<>>
    ELSE all_links \o find_links_from_section(ListingCat[out], top_k)

\* all_links after the listing fetch answers out (0: the request raised)
links_after(out) ==
    IF out = 0 THEN all_links
    ELSE all_links \o find_links_from_section(ListingCat[out], top_k)

\* one iteration of "for i, u in enumerate(urls_to_try)"
FetchListing(answers) ==
    /\ pc = "listing"
    /\ Len(lres) < 2
    /\ \E out \in answers :
          /\ lres' = Append(lres, out)
          /\ all_links' = links_after(out)
    /\ UNCHANGED <<pc, top_k, secIdx, files, all_rows, seen, rows, hidx, log,
                   tried, art, items, scan>>

\* seen = the links without repeats; rows, today = [], ...
DedupLinks ==
    /\ pc = "listing"
    /\ Len(lres) = 2
    /\ seen' = Unique(all_links)
    /\ rows' = <<>>
    /\ hidx' = 1
    /\ pc' = "loop"
    /\ UNCHANGED <<top_k, secIdx, files, all_rows, lres, all_links, log, tried,
                   art, items, scan>>

\* for h in seen: time.sleep(delay)
Sleep ==
    /\ pc = "loop"
    /\ hidx <= Len(seen)
    /\ log' = Append(log, [ev |-> "sleep", url |-> seen[hidx]])
    /\ pc' = "call"
    /\ UNCHANGED <<top_k, secIdx, files, all_rows, lres, all_links, seen, rows,
                   hidx, tried, art, items, scan>>

\* art = extract_article(h): the call
CallExtract ==
    /\ pc = "call"
    /\ log' = Append(log, [ev |-> "extract", url |-> seen[hidx]])
    /\ tried' = <<>>
    /\ art' = Sentinel
    /\ pc' = "extract"
    /\ UNCHANGED <<top_k, secIdx, files, all_rows, lres, all_links, seen, rows,
                   hidx, items, scan>>

\* a slip: a failed desktop request ends extract_article
attempt_no_retry(mobile, res) ==
    IF res # 0 /\ Usable(PairCat[res])
        THEN [pc |-> "check", art |-> PairCat[res]]
    ELSE IF mobile \/ res = 0 THEN [pc |-> "check", art |-> Sentinel]
    ELSE [pc |-> "extract", art |-> Sentinel]

\* what extract_article does after the fetch with mobile_flag = mobile
\* answered res: return a pair, or go on to the next flag
attempt(mobile, res) ==
    IF res # 0 /\ Usable(PairCat[res])
        THEN [pc |-> "check", art |-> PairCat[res]]
    ELSE IF mobile THEN [pc |-> "check", art |-> Sentinel]
    ELSE [pc |-> "extract", art |-> Sentinel]

\* one iteration of "for mobile_flag in (False, True)"
GetArticle(answers) ==
    /\ pc = "extract"
    /\ \E res \in answers :
          LET mobile == Len(tried) = 1
              a      == attempt(mobile, res)
          IN  /\ tried' = Append(tried, [mobile |-> mobile, res |-> res])
              /\ art' = a.art
              /\ pc' = a.pc
    /\ UNCHANGED <<top_k, secIdx, files, all_rows, lres, all_links, seen, rows,
                   hidx, log, items, scan>>

\* a slip: the emptiness test on the extracted pair is missing
rows_after_unchecked(a, h) == Append(rows, Row(section_name, h, a))

\* rows after the extracted pair a of the link h is looked at
rows_after(a, h) ==
    IF a.title # <<>> /\ a.content # <<>>
        THEN Append(rows, Row(section_name, h, a))
    ELSE rows

\* if len(rows) >= top_k: break
loop_break(rs) == Len(rs) >= top_k

\* the rest of the loop body, after extract_article returned
Check ==
    /\ pc = "check"
    /\ LET rs == rows_after(art, seen[hidx])
       IN  /\ rows' = rs
           /\ IF loop_break(rs)
                 THEN pc' = "return" /\ hidx' = hidx
                 ELSE pc' = "loop" /\ hidx' = hidx + 1
    /\ tried' = <<>>
    /\ art' = Sentinel
    /\ UNCHANGED <<top_k, secIdx, files, all_rows, lres, all_links, seen, log,
                   items, scan>>

\* the link list is exhausted
LoopExit ==
    /\ pc = "loop"
    /\ hidx > Len(seen)
    /\ pc' = "return"
    /\ UNCHANGED <<top_k, secIdx, files, all_rows, lres, all_links, seen, rows,
                   hidx, log, tried, art, items, scan>>

\* a slip: the [:top_k] is missing
scrape_result_untruncated(rs) == dedup(rs)

\* a slip: the dedup is missing
scrape_result_nodedup(rs) == Take(rs, top_k)

\* return dedup(rows)[:top_k]
scrape_result(rs) == Take(dedup(rs), top_k)

Return ==
    /\ pc = "return"
    /\ items' = scrape_result(rows)
    /\ pc' = "write"
    /\ UNCHANGED <<top_k, secIdx, files, all_rows, lres, all_links, seen, rows,
                   hidx, log, tried, art, scan>>

(* --------------------------------- main -------------------------------- *)

\* (OUT / f"{name}.json").write_text(json.dumps(items, ...))
WriteSection ==
    /\ pc = "write"
    /\ files' = [files EXCEPT ![section_name] = [written |-> TRUE, data |-> items]]
    /\ pc' = "extend"
    /\ UNCHANGED <<top_k, secIdx, all_rows, lres, all_links, seen, rows, hidx,
                   log, tried, art, items, scan>>

\* a slip: the section's records go in front of the accumulator
extended_front(its) == its \o all_rows

\* all_rows after all_rows.extend(its)
extended(its) == all_rows \o its

ExtendAll ==
    /\ pc = "extend"
    /\ all_rows' = extended(items)
    /\ secIdx' = secIdx + 1
    /\ pc' = "main"
    /\ UNCHANGED <<top_k, files, lres, all_links, seen, rows, hidx, log, tried,
                   art, items, scan>>

\* (OUT / "all_sections.json").write_text(json.dumps(all_rows, ...))
WriteAll ==
    /\ pc = "main"
    /\ secIdx > Len(SECTIONS)
    /\ files' = [files EXCEPT !["all_sections"] = [written |-> TRUE, data |-> all_rows]]
    /\ pc' = "done"
    /\ UNCHANGED <<top_k, secIdx, all_rows, lres, all_links, seen, rows, hidx,
                   log, tried, art, items, scan>>

(* -------------------- find_links_from_section, alone ------------------- *)

Hrefs ==
    {EmptyHref}
    \cup {Href(h, p, n) : h \in {"", Desktop},
                          p \in {"/read.naver", "/mnews/article/", "/other"},
                          n \in 1..MaxIds}

\* find_links_from_section called with some limit, before the first anchor
LinksInit ==
    /\ pc = "scan"
    /\ top_k \in 0..MaxLimit
    /\ secIdx = 1
    /\ files = [f \in FileNames |-> NoFile]
    /\ all_rows = <<>>
    /\ scan = ScanStart
    /\ FreshLocals

\* the document has one more anchor
ScanAnchor ==
    /\ pc = "scan"
    /\ \E href \in Hrefs : scan' = scan_anchor(scan, href, top_k)
    /\ pc' = IF scan'.stop THEN "scanned" ELSE "scan"
    /\ UNCHANGED <<top_k, secIdx, files, all_rows, lres, all_links, seen, rows,
                   hidx, log, tried, art, items>>

\* the document has no more anchors
ScanEnd ==
    /\ pc = "scan"
    /\ pc' = "scanned"
    /\ UNCHANGED <<top_k, secIdx, files, all_rows, lres, all_links, seen, rows,
                   hidx, log, tried, art, items, scan>>

(* --------------------------- specifications ---------------------------- *)

\* the whole run of main; every step is a step of the one thread, which
\* nothing suspends for ever
MainNext ==
    \/ CallScrape
    \/ FetchListing(MainListings)
    \/ DedupLinks
    \/ Sleep
    \/ CallExtract
    \/ GetArticle(MainPages)
    \/ Check
    \/ LoopExit
    \/ Return
    \/ WriteSection
    \/ ExtendAll
    \/ WriteAll

Spec == MainInit /\ [][MainNext]_vars /\ WF_vars(MainNext)

\* one call of scrape_one, up to the write of what it returned
SectionNext ==
    \/ FetchListing(SectionListings)
    \/ DedupLinks
    \/ Sleep
    \/ CallExtract
    \/ GetArticle(SectionPages)
    \/ Check
    \/ LoopExit
    \/ Return
    \/ WriteSection

SectionSpec == SectionInit /\ [][SectionNext]_vars

\* one call of find_links_from_section
LinksNext == ScanAnchor \/ ScanEnd

LinksSpec == LinksInit /\ [][LinksNext]_vars

(* ------------------------------- claims -------------------------------- *)

\* the fingerprint as the specification words it: the title followed by
\* the first 160 characters of the content
ClaimFp(r) == r.title \o SubSeq(r.content, 1, Min(KeyPrefix, Len(r.content)))

IsPrefix(s, t) == Len(s) <= Len(t) /\ SubSeq(t, 1, Len(s)) = s

NoRepeat(s) == \A j, k \in 1..Len(s) : j < k => s[j] # s[k]

\* position of the link u in the deduplicated link list
UrlPos(u) == CHOOSE j \in 1..Len(seen) : seen[j] = u

\* scrape_one has returned
Returned == pc \in {"write", "extend"}

\* how many links extract_article was called for
Attempts == Cardinality({j \in 1..Len(log) : log[j].ev = "extract"})

\* the outputs of the sections before the n-th, one after the other
RECURSIVE OutputsBefore(_)
OutputsBefore(n) ==
    IF n <= 1 THEN <<>>
    ELSE OutputsBefore(n - 1) \o files[SECTIONS[n - 1].name].data

\* C1: for every section, every top-k >= 0 and every pattern of fetch
\* outcomes, what scrape_one returns and what is written to the section's
\* file has at most top-k records.
C1_AtMostTopK ==
    /\ Returned => Len(items) <= top_k
    /\ \A f \in FileNames : files[f].written => Len(files[f].data) <= top_k

\* C1 witness: top-k is 0, a record was collected, the file holds none
C1_Witness ==
    /\ pc = "extend"
    /\ top_k = 0
    /\ Len(rows) = 1
    /\ files[section_name] = [written |-> TRUE, data |-> <<>>]

\* C2: in a section's output no two records share a fingerprint, the record
\* kept for a fingerprint is the first one discovered with it, and the
\* records are in the order in which their links were discovered.
C2_SectionDedup ==
    Returned =>
        /\ \A j, k \in 1..Len(items) :
              j < k => /\ ClaimFp(items[j]) # ClaimFp(items[k])
                       /\ UrlPos(items[j].url) < UrlPos(items[k].url)
        /\ \A j \in 1..Len(items) :
              /\ InSeq(items[j], rows)
              /\ \A m \in 1..Len(rows) :
                    ClaimFp(rows[m]) = ClaimFp(items[j])
                        => UrlPos(items[j].url) <= UrlPos(rows[m].url)
        /\ pc = "extend" => files[section_name].data = items

\* C2 witness: two records with one fingerprint and different contents were
\* collected, one was dropped, two records are written
C2_Witness ==
    /\ pc = "extend"
    /\ Len(items) >= 2
    /\ Len(rows) > Len(items)
    /\ \E m, n \in 1..Len(rows) :
          /\ m < n
          /\ ClaimFp(rows[m]) = ClaimFp(rows[n])
          /\ rows[m].content # rows[n].content
          /\ InSeq(rows[m], items)

\* C3 as stated: in every output written, the combined one included, no
\* two records share a fingerprint.
C3_NoSharedFingerprint ==
    \A f \in FileNames :
        \A j, k \in 1..Len(files[f].data) :
            j < k => ClaimFp(files[f].data[j]) # ClaimFp(files[f].data[k])

\* C3 amended: in every output written, two records that share a
\* fingerprint are records of two different sections; so no two records of
\* a section's own output share one.
C3_SharedOnlyAcrossSections ==
    \A f \in FileNames :
        \A j, k \in 1..Len(files[f].data) :
            (j < k /\ ClaimFp(files[f].data[j]) = ClaimFp(files[f].data[k]))
                => files[f].data[j].section # files[f].data[k].section

\* C3 witness: the combined output is written and holds the same article
\* twice, under two sections; a section dropped a repeat of its own
C3_Witness ==
    /\ pc = "done"
    /\ Len(rows) > Len(items)
    /\ \E j, k \in 1..Len(files["all_sections"].data) :
          /\ j < k
          /\ ClaimFp(files["all_sections"].data[j]) = ClaimFp(files["all_sections"].data[k])
          /\ files["all_sections"].data[j].section # files["all_sections"].data[k].section

\* C4: when the listing gives at least top-k distinct links and every
\* article extracted gives a title and a content, the section's output has
\* exactly top-k records (5 links and top-k 3: exactly 3).
C4_ExactlyTopK ==
    (Returned /\ Len(seen) >= top_k /\ Attempts = Len(rows))
        => /\ Len(items) = top_k
           /\ pc = "extend" => Len(files[section_name].data) = top_k

\* C5: every record of every output has a title and a content, and a link
\* whose extraction gave the empty pair adds no record.
C5_NonEmptyFields ==
    /\ [](/\ \A j \in 1..Len(rows) : rows[j].title # <<>> /\ rows[j].content # <<>>
          /\ \A j \in 1..Len(all_rows) :
                all_rows[j].title # <<>> /\ all_rows[j].content # <<>>
          /\ \A f \in FileNames : \A j \in 1..Len(files[f].data) :
                files[f].data[j].title # <<>> /\ files[f].data[j].content # <<>>)
    /\ [][(pc = "check" /\ (art.title = <<>> \/ art.content = <<>>))
              => rows' = rows]_vars

\* C5 witness: the run ended, a link of the last section gave nothing and
\* another gave a record, which is in the combined output
C5_Witness ==
    /\ pc = "done"
    /\ Attempts > Len(rows)
    /\ Len(items) = 1
    /\ InSeq(items[1], files["all_sections"].data)

\* the fetch answered with a page that has a title and a cleaned body
Good(res) == res # 0 /\ PairCat[res].title # <<>> /\ PairCat[res].content # <<>>

\* C6: extract_article fetches the desktop page first; a usable pair from
\* it is returned with no mobile fetch; otherwise (failed request or no
\* pair) the mobile page is fetched; when neither gives a pair the result
\* is the empty pair; a failed request never leaves extract_article.
C6_DesktopThenMobile ==
    tried # <<>> =>
        /\ pc \in {"extract", "check"}
        /\ Len(tried) <= 2
        /\ ~tried[1].mobile
        /\ Len(tried) = 2 => (tried[2].mobile /\ ~Good(tried[1].res))
        /\ IF Good(tried[Len(tried)].res)
              THEN pc = "check" /\ art = PairCat[tried[Len(tried)].res]
           ELSE IF Len(tried) = 2
              THEN pc = "check" /\ art = Sentinel
           ELSE pc = "extract"

\* C6 witness: the desktop request failed and the mobile page gave the pair
C6_Witness ==
    /\ pc = "check"
    /\ Len(tried) = 2
    /\ tried[1].res = 0
    /\ Good(tried[2].res)
    /\ art # Sentinel

\* the links of the listing answer out, as scrape_one keeps them
LinksOf(out) == Unique(find_links_from_section(ListingCat[out], top_k))

\* C7: whatever requests fail, the run ends with the six section files and
\* the combined file written; after one failed listing fetch the other
\* listing is still fetched and its links are the ones used; a section
\* both of whose listing fetches failed is written as an empty array.
C7_FailuresRecoverable ==
    /\ <>(pc = "done" /\ \A f \in FileNames : files[f].written)
    /\ [](/\ (Len(lres) = 1 /\ pc # "done") => pc = "listing"
          /\ (Len(lres) = 2 /\ pc \notin {"listing", "done"}) =>
                /\ (lres[1] = 0 /\ lres[2] # 0) => seen = LinksOf(lres[2])
                /\ (lres[1] # 0 /\ lres[2] = 0) => seen = LinksOf(lres[1])
                /\ (lres[1] = 0 /\ lres[2] = 0) => seen = <<>>
          /\ (pc = "extend" /\ lres = <<0, 0>>)
                => files[section_name] = [written |-> TRUE, data |-> <<>>])

\* C7 witness: the run ended although both listing fetches of the last
\* section failed; its file is an empty array, an earlier one is not
C7_Witness ==
    /\ pc = "done"
    /\ lres = <<0, 0>>
    /\ \A f \in FileNames : files[f].written
    /\ files["it_science"].data = <<>>
    /\ files["world"].data # <<>>

\* C8: the combined output is the section outputs one after the other in
\* the order politics .. it_science; the accumulator only grows at its
\* end; a section's records are appended after its file is written and
\* before the next section starts; the combined file is written last.
C8_Concatenation ==
    /\ [](/\ all_rows = OutputsBefore(secIdx)
          /\ \A j \in 1..Len(SECTIONS) :
                files[SECTIONS[j].name].written
                    <=> (j < secIdx \/ (j = secIdx /\ pc = "extend"))
          /\ files["all_sections"].written <=> pc = "done"
          /\ pc = "done" =>
                /\ secIdx = Len(SECTIONS) + 1
                /\ files["all_sections"].data = OutputsBefore(Len(SECTIONS) + 1))
    /\ [][IsPrefix(all_rows, all_rows')]_vars

\* C8 witness: the combined file holds a record of politics before a
\* record of it_science
C8_Witness ==
    /\ pc = "done"
    /\ Len(files["all_sections"].data) >= 2
    /\ files["all_sections"].data[1].section = "politics"
    /\ files["all_sections"].data[Len(files["all_sections"].data)].section = "it_science"
    /\ files["economy"].data = <<>>

\* C9: for every listing and every k >= 0, find_links_from_section gives
\* matching URLs without repeats, in first-seen order, at most 6*k of
\* them, and stops scanning once it has 6*k.
C9_LinksBounded ==
    /\ [](/\ NoRepeat(scan.links)
          /\ \A j \in 1..Len(scan.links) :
                pattern(scan.links[j]) /\ scan.links[j].host # ""
          /\ Len(scan.links) <= LinkMargin * top_k
          /\ scan.stop => pc = "scanned")
    /\ [][IsPrefix(scan.links, scan.links')]_vars

\* C10: the links are visited in order, one pause before each extraction;
\* no link is fetched once the result list holds top-k records, and every
\* link is tried while it holds fewer.
C10_LoopStops ==
    /\ \A j \in 1..Len(log) :
          /\ log[j].ev = (IF j % 2 = 1 THEN "sleep" ELSE "extract")
          /\ log[j].url = seen[(j + 1) \div 2]
    /\ pc \in {"call", "extract", "check"} => Len(rows) < top_k
    /\ (pc = "return" \/ Returned) => (Len(rows) >= top_k \/ Attempts = Len(seen))

====
